---------------------------- MODULE Spec2Model ----------------------------
(***************************************************************************)
(* A model of the rats terminal file browser: the navigation / filtering   *)
(* state machine of src/app.rs (the modal variant with preview) and of     *)
(* src/main.rs (the single-mode variant with headless export), together    *)
(* with the fuzzy matcher of src/fuzzy.rs.                                 *)
(*                                                                         *)
(* Strings are sequences of one-character strings.  A path is the sequence *)
(* of its components below the filesystem root, so <<>> is "/".  Rust's    *)
(* Option is a sequence of length at most one: None is <<>>, Some(x) is    *)
(* <<x>>.  Indices stored in the state are 0-based, as in the code.        *)
(***************************************************************************)
EXTENDS Integers, Sequences, FiniteSets, TLC

VARIABLES
    app,        \* the App struct (src/app.rs:5-15, src/main.rs:99-106)
    program,    \* which program owns the App: "app" (app.rs) or "main" (main.rs)
    disk,       \* which of the filesystems below the program runs on
    key,        \* the key code the event loop read last (main.rs run_app)
    call,       \* arguments and result of a call of fuzzy_match on its own
    last_op,    \* history: name of the operation that produced this state
    prev_op,    \* history: name of the operation before that
    ret,        \* history: what the last operation returned
    pre         \* history: the App as it was before the last operation

vars == <<app, program, disk, key, call, last_op, prev_op, ret, pre>>

-----------------------------------------------------------------------------
(* Bounds of the model *)

MaxQuery == 2
MaxScrollSteps == 2
MaxPattern == 2
MaxText == 3

-----------------------------------------------------------------------------
(* Option and Result *)

None == <<>>
Some(x) == <<x>>

Ok(v) == [kind |-> "Ok", value |-> v]
Err == [kind |-> "Err", value |-> None]

\* The last component of a path (or element of a Vec), and what is before it.
Last(s) == s[Len(s)]
Front(s) == SubSeq(s, 1, Len(s) - 1)

-----------------------------------------------------------------------------
(* Characters and strings *)

\* Unicode scalar value of the characters the model uses.
Code(c) ==
    CASE c = "." -> 46
      [] c = "A" -> 65
      [] c = "B" -> 66
      [] c = "U" -> 85
      [] c = "_" -> 95
      [] c = "a" -> 97
      [] c = "b" -> 98
      [] c = "k" -> 107
      [] c = "n" -> 110
      [] c = "o" -> 111
      [] c = "w" -> 119

\* char::to_lowercase for those characters.  The Greek letters are written
\* by name: "Sigma" is the capital, "sigma" the small letter, "final_sigma"
\* the small letter's form at the end of a word.
LowerChar(c) ==
    CASE c = "A" -> "a"
      [] c = "B" -> "b"
      [] c = "U" -> "u"
      [] OTHER -> c

\* The Unicode properties Cased and Case_Ignorable of the characters used
\* here: every letter is cased, the full stop is case-ignorable.
Cased(c) == c \notin {".", "_", "-", "/", " "}

Case_Ignorable(c) == c = "."

RECURSIVE case_ignorable_then_cased(_)
case_ignorable_then_cased(chars) ==
    IF chars = <<>> THEN FALSE
    ELSE IF Case_Ignorable(Head(chars))
    THEN case_ignorable_then_cased(Tail(chars))
    ELSE Cased(Head(chars))

Reverse(s) == [i \in 1..Len(s) |-> s[Len(s) + 1 - i]]

\* The capital sigma at position i of `from` becomes the final sigma at the
\* end of a word (a cased letter before it, none after it) and the small
\* sigma anywhere else.
map_uppercase_sigma(from, i) ==
    LET is_word_final ==
            /\ case_ignorable_then_cased(Reverse(SubSeq(from, 1, i - 1)))
            /\ ~case_ignorable_then_cased(SubSeq(from, i + 1, Len(from)))
    IN  IF is_word_final THEN "final_sigma" ELSE "sigma"

\* str::to_lowercase: each character's lower case, with the one
\* context-dependent mapping, that of the capital sigma.
to_lowercase(s) ==
    [i \in 1..Len(s) |->
        IF s[i] = "Sigma" THEN map_uppercase_sigma(s, i) ELSE LowerChar(s[i])]

\* str's Ord: lexicographic by code point (equal to UTF-8 byte order).
RECURSIVE StrCmp(_, _)
StrCmp(s, t) ==
    IF s = <<>> /\ t = <<>> THEN "Equal"
    ELSE IF s = <<>> THEN "Less"
    ELSE IF t = <<>> THEN "Greater"
    ELSE IF Code(Head(s)) < Code(Head(t)) THEN "Less"
    ELSE IF Code(Head(s)) > Code(Head(t)) THEN "Greater"
    ELSE StrCmp(Tail(s), Tail(t))

\* The strings of at most n characters of chars.
Strings(chars, n) == UNION {[1..k -> chars] : k \in 0..n}

DotDot == <<".", ".">>
Unknown == <<"U", "n", "k", "n", "o", "w", "n">>

-----------------------------------------------------------------------------
(* The filesystem the program runs on, one of two fixed trees.  The small   *)
(* one:                                                                    *)
(*     /        B/  a/  Ab  b                                              *)
(*     /B       a/  .a  a_b  ab  b.a                                       *)
(*     /B/a     (empty)                                                    *)
(*     /a       b                                                          *)
(* The wide one is a root directory of WideCount files, more than the      *)
(* headless export emits.  read_dir yields a directory's children in the   *)
(* operating system's order, which is not sorted.                          *)

Root == <<>>
DirB == << <<"B">> >>
DirBa == << <<"B">>, <<"a">> >>
Dira == << <<"a">> >>

Dirs == IF disk = "wide" THEN {Root} ELSE {Root, DirB, DirBa, Dira}

\* main.rs: let max_results = 100
max_results == 100

WideCount == max_results + 1

\* The characters of the names in the wide tree, and the name of its i-th
\* file (i from 0).
WideChars == <<".", "A", "B", "U", "_", "a", "b", "k", "n", "o", "w">>

WideName(i) ==
    <<"w", WideChars[(i \div Len(WideChars)) + 1],
           WideChars[(i % Len(WideChars)) + 1]>>

RawChildren(dir) ==
    IF disk = "wide"
    THEN [n \in 1..WideCount |-> WideName((n * 7) % WideCount)]
    ELSE CASE dir = Root -> << <<"b">>, <<"B">>, <<"a">>, <<"A", "b">> >>
           [] dir = DirB -> << <<"a", "b">>, <<"b", ".", "a">>, <<"a">>,
                               <<".", "a">>, <<"a", "_", "b">> >>
           [] dir = DirBa -> << >>
           [] dir = Dira -> << <<"b">> >>


\* Path::is_dir of a child of the tree.
IsDirNode(path) == path \in Dirs

\* What fs::read_to_string finds in each file: whether it can be read, its
\* length in bytes, whether it holds a NUL, and whether byte offset 50000
\* falls on a character boundary (it does not when a multi-byte character
\* straddles it).
FileInfo(path) ==
    CASE path = << <<"A", "b">> >> ->
            [readable |-> TRUE, len |-> 120, nul |-> FALSE, boundary |-> TRUE]
      [] path = << <<"b">> >> ->
            [readable |-> FALSE, len |-> 0, nul |-> FALSE, boundary |-> TRUE]
      [] path = << <<"B">>, <<"a", "b">> >> ->
            [readable |-> TRUE, len |-> 300, nul |-> TRUE, boundary |-> TRUE]
      [] path = << <<"B">>, <<"b", ".", "a">> >> ->
            [readable |-> TRUE, len |-> 70000, nul |-> FALSE, boundary |-> TRUE]
      [] path = << <<"B">>, <<".", "a">> >> ->
            [readable |-> TRUE, len |-> 60000, nul |-> FALSE, boundary |-> FALSE]
      [] path = << <<"B">>, <<"a", "_", "b">> >> ->
            [readable |-> TRUE, len |-> 60000, nul |-> FALSE, boundary |-> TRUE]
      [] path = << <<"a">>, <<"b">> >> ->
            [readable |-> TRUE, len |-> 10, nul |-> FALSE, boundary |-> TRUE]
      [] OTHER ->
            [readable |-> FALSE, len |-> 0, nul |-> FALSE, boundary |-> TRUE]

-----------------------------------------------------------------------------
(* std::path *)

\* Path::file_name: None for the root and for a path that ends in "..".
file_name(path) ==
    IF path = <<>> \/ Last(path) = DotDot THEN None ELSE Some(Last(path))

\* Path::parent: the path without its last component, None for the root.
parent(path) == IF path = <<>> THEN None ELSE Some(Front(path))

\* Path::join with a single component.
join(path, name) == Append(path, name)

\* Path::is_dir asks the filesystem: dir/.. names a directory whenever dir
\* is one.
is_dir(path) ==
    IF path # <<>> /\ Last(path) = DotDot
    THEN IsDirNode(Front(path))
    ELSE IsDirNode(path)

\* Path::canonicalize on the paths the program builds: dir/.. is dir's
\* parent in the filesystem (the root is its own parent).
canonicalize(path) ==
    IF path # <<>> /\ Last(path) = DotDot
    THEN (IF Front(path) = <<>> THEN <<>> ELSE Front(Front(path)))
    ELSE path

\* Path::extension: what follows the last dot of the file name, None when
\* there is no file name, no dot, or the only dot is the first character.
extension(path) ==
    IF file_name(path) = None THEN None
    ELSE LET name == file_name(path)[1]
             dots == {i \in 1..Len(name) : name[i] = "."}
         IN  IF dots = {} THEN None
             ELSE LET d == CHOOSE i \in dots : \A j \in dots : j <= i
                  IN  IF d = 1 THEN None
                      ELSE Some(SubSeq(name, d + 1, Len(name)))

safe_filename_to_string(path) ==
    IF file_name(path) # None THEN file_name(path)[1]
    ELSE IF path # <<>> /\ Last(path) = DotDot THEN DotDot
    ELSE Unknown

safe_filename_for_matching(path) ==
    IF file_name(path) # None THEN Some(file_name(path)[1]) ELSE None

-----------------------------------------------------------------------------
(* fuzzy.rs *)

IsSeparator(c) == c \in {"/", "_", "-", "."}

\* The loop of fuzzy_match from text index ti (1-based here) on: pi pattern
\* characters are matched so far, their 0-based text indices are in matched.
RECURSIVE FuzzyScan(_, _, _, _, _, _)
FuzzyScan(pattern_chars, text_chars, ti, pi, score, matched) ==
    IF ti > Len(text_chars)
    THEN [pattern_idx |-> pi, score |-> score, matched_indices |-> matched]
    ELSE IF pi < Len(pattern_chars) /\ text_chars[ti] = pattern_chars[pi + 1]
    THEN LET text_idx == ti - 1
             consecutive ==
                 IF matched # <<>> /\ text_idx = Last(matched) + 1
                 THEN 5 ELSE 0
             beginning == IF text_idx = 0 THEN 15 ELSE 0
             separator ==
                 IF text_idx > 0 /\ IsSeparator(text_chars[ti - 1])
                 THEN 10 ELSE 0
         IN  FuzzyScan(pattern_chars, text_chars, ti + 1, pi + 1,
                       score + 10 + consecutive + beginning + separator,
                       Append(matched, text_idx))
    ELSE FuzzyScan(pattern_chars, text_chars, ti + 1, pi, score, matched)

\* Mutant: the scan's result is returned without testing that every
\* pattern character was matched.
fuzzy_match_accepts_partial(pattern, text) ==
    IF pattern = <<>>
    THEN Some([score |-> 0, matched_indices |-> <<>>])
    ELSE LET pattern_chars == to_lowercase(pattern)
             text_chars == to_lowercase(text)
             scan == FuzzyScan(pattern_chars, text_chars, 1, 0, 0, <<>>)
         IN  Some([score |-> scan.score - Len(text_chars),
                   matched_indices |-> scan.matched_indices])

\* Mutant: only a pattern found at adjacent positions is a match.
fuzzy_match_adjacent_only(pattern, text) ==
    IF pattern = <<>>
    THEN Some([score |-> 0, matched_indices |-> <<>>])
    ELSE LET pattern_chars == to_lowercase(pattern)
             text_chars == to_lowercase(text)
             scan == FuzzyScan(pattern_chars, text_chars, 1, 0, 0, <<>>)
             m == scan.matched_indices
         IN  IF /\ scan.pattern_idx = Len(pattern_chars)
                /\ \A k \in 2..Len(m) : m[k] = m[k - 1] + 1
             THEN Some([score |-> scan.score - Len(text_chars),
                        matched_indices |-> m])
             ELSE None

\* Mutant: the length of the text is not taken off the score.
fuzzy_match_without_penalty(pattern, text) ==
    IF pattern = <<>>
    THEN Some([score |-> 0, matched_indices |-> <<>>])
    ELSE LET pattern_chars == to_lowercase(pattern)
             text_chars == to_lowercase(text)
             scan == FuzzyScan(pattern_chars, text_chars, 1, 0, 0, <<>>)
         IN  IF scan.pattern_idx = Len(pattern_chars)
             THEN Some([score |-> scan.score,
                        matched_indices |-> scan.matched_indices])
             ELSE None

fuzzy_match(pattern, text) ==
    IF pattern = <<>>
    THEN Some([score |-> 0, matched_indices |-> <<>>])
    ELSE LET pattern_chars == to_lowercase(pattern)
             text_chars == to_lowercase(text)
             scan == FuzzyScan(pattern_chars, text_chars, 1, 0, 0, <<>>)
         IN  IF scan.pattern_idx = Len(pattern_chars)
             THEN Some([score |-> scan.score - Len(text_chars),
                        matched_indices |-> scan.matched_indices])
             ELSE None

-----------------------------------------------------------------------------
(* Preview: App::read_file_content *)

PreviewLimit == 50000

binary_extensions ==
    {<<"e", "x", "e">>, <<"b", "i", "n">>, <<"d", "l", "l">>, <<"s", "o">>,
     <<"d", "y", "l", "i", "b">>, <<"a">>, <<"o">>, <<"o", "b", "j">>,
     <<"j", "p", "g">>, <<"j", "p", "e", "g">>, <<"p", "n", "g">>,
     <<"g", "i", "f">>, <<"b", "m", "p">>, <<"i", "c", "o">>,
     <<"t", "i", "f", "f">>, <<"w", "e", "b", "p">>, <<"m", "p", "3">>,
     <<"m", "p", "4">>, <<"w", "a", "v">>, <<"f", "l", "a", "c">>,
     <<"o", "g", "g">>, <<"a", "v", "i">>, <<"m", "k", "v">>,
     <<"m", "o", "v">>, <<"p", "d", "f">>, <<"d", "o", "c">>,
     <<"d", "o", "c", "x">>, <<"x", "l", "s">>, <<"x", "l", "s", "x">>,
     <<"p", "p", "t">>, <<"p", "p", "t", "x">>, <<"z", "i", "p">>,
     <<"t", "a", "r">>, <<"g", "z">>, <<"b", "z", "2">>, <<"7", "z">>,
     <<"r", "a", "r">>}

\* The text a preview holds, kept as what it is made of: kind "Binary" is
\* "Binary file: <name>", "Unreadable" is "Could not read file", "Whole" is
\* the file's content, "Truncated" is its first `bytes` bytes followed by
\* the marker naming `total`.  "Panic" is no value: the slice
\* &content[..50000] panics when 50000 is not a character boundary.
Text(kind, path, bytes, total) ==
    [kind |-> kind, name |-> safe_filename_to_string(path),
     bytes |-> bytes, total |-> total]

read_file_content(path) ==
    IF extension(path) # None
       /\ to_lowercase(extension(path)[1]) \in binary_extensions
    THEN Some(Text("Binary", path, 0, 0))
    ELSE LET f == FileInfo(path)
         IN  IF ~f.readable THEN Some(Text("Unreadable", path, 0, 0))
             ELSE IF f.nul THEN Some(Text("Binary", path, 0, 0))
             ELSE IF f.len > PreviewLimit
             THEN (IF f.boundary
                   THEN Some(Text("Truncated", path, PreviewLimit, f.len))
                   ELSE Some(Text("Panic", path, 0, 0)))
             ELSE Some(Text("Whole", path, f.len, f.len))

-----------------------------------------------------------------------------
(* Sorting.  slice::sort_by and slice::sort are stable: an element comes    *)
(* after the earlier elements that compare Less than or Equal to it.        *)
(* SortSeq is that sort: it moves each element, in turn, left past the      *)
(* elements it is to precede.                                               *)

\* Mutant: directories are not put before files.
ItemCmp_ignoring_kind(a, b) ==
    IF safe_filename_to_string(a) = DotDot THEN "Less"
    ELSE IF safe_filename_to_string(b) = DotDot THEN "Greater"
    ELSE StrCmp(safe_filename_to_string(a), safe_filename_to_string(b))

\* The comparator of load_directory's sort_by (app.rs).
ItemCmp(a, b) ==
    IF safe_filename_to_string(a) = DotDot THEN "Less"
    ELSE IF safe_filename_to_string(b) = DotDot THEN "Greater"
    ELSE IF is_dir(a) /\ ~is_dir(b) THEN "Less"
    ELSE IF ~is_dir(a) /\ is_dir(b) THEN "Greater"
    ELSE StrCmp(safe_filename_to_string(a), safe_filename_to_string(b))

sort_items(paths) ==
    SortSeq(paths, LAMBDA x, y : ItemCmp(x, y) = "Less")

\* PathBuf's Ord, used by dirs.sort() and files.sort() (main.rs): component
\* by component.
RECURSIVE PathCmp(_, _)
PathCmp(a, b) ==
    IF a = <<>> /\ b = <<>> THEN "Equal"
    ELSE IF a = <<>> THEN "Less"
    ELSE IF b = <<>> THEN "Greater"
    ELSE IF StrCmp(Head(a), Head(b)) # "Equal" THEN StrCmp(Head(a), Head(b))
    ELSE PathCmp(Tail(a), Tail(b))

sort_paths(paths) ==
    SortSeq(paths, LAMBDA x, y : PathCmp(x, y) = "Less")

\* The comparator |a, b| b.1.cmp(&a.1) of update_filter: higher score first.
ScoreCmp(a, b) ==
    IF b[2] < a[2] THEN "Less"
    ELSE IF b[2] > a[2] THEN "Greater"
    ELSE "Equal"

\* Mutant: an unstable sort, which puts a match before the earlier matches
\* of the same score.
sort_matches_unstable(matches) ==
    SortSeq(matches, LAMBDA x, y : ScoreCmp(x, y) # "Greater")

sort_matches(matches) ==
    SortSeq(matches, LAMBDA x, y : ScoreCmp(x, y) = "Less")

\* Iterator::filter_map over 0..n kept as a sequence: opts[i] is an Option,
\* and the values of those that are Some are kept, in order.
FilterMap(opts, n) ==
    LET kept == SelectSeq(SubSeq(opts, 1, n), LAMBDA o : o # None)
    IN  [i \in 1..Len(kept) |-> kept[i][1]]

-----------------------------------------------------------------------------
(* src/app.rs: the App and its operations, each a function from the App     *)
(* before to the App after.  panicked is not a field of the struct: it      *)
(* records that the operation panicked, after which the process is gone.    *)

\* The most children a directory of the tree has.
MaxChildren == CHOOSE n \in 0..9 :
    /\ \A d \in Dirs : Len(RawChildren(d)) <= n
    /\ \E d \in Dirs : Len(RawChildren(d)) = n

\* fs::read_dir and its iterator either succeed (None) or fail (Some(k)):
\* the error comes after k entries were yielded, or after all of them when
\* there are fewer; k = 0 is read_dir itself failing.
ReadOutcomes == {None} \cup {Some(k) : k \in 0..MaxChildren}

\* entry.path() of the first n entries read_dir yields for dir.
Entries(dir, n) ==
    LET yielded == IF n < Len(RawChildren(dir)) THEN n
                   ELSE Len(RawChildren(dir))
    IN  [i \in 1..yielded |-> join(dir, RawChildren(dir)[i])]

\* The entry the cursor resolves to, the chain of if-lets that opens
\* enter_selected and load_preview: list_state.selected(), then
\* filtered_items.get(selected), then items.get(item_index).
selected_path(a) ==
    IF a.list_state = None THEN None
    ELSE IF a.list_state[1] >= Len(a.filtered_items) THEN None
    ELSE LET item_index == a.filtered_items[a.list_state[1] + 1][1]
         IN  IF item_index >= Len(a.items) THEN None
             ELSE Some(a.items[item_index + 1])

load_preview(a) ==
    LET cleared == [a EXCEPT !.preview_content = None, !.preview_scroll = 0]
    IN  IF a.panicked THEN a
        ELSE IF selected_path(a) = None THEN cleared
        ELSE LET path == selected_path(a)[1]
             IN  IF ~is_dir(path) /\ file_name(path) # None
                                  /\ file_name(path)[1] # DotDot
                 THEN LET content == read_file_content(path)
                      IN  IF content # None /\ content[1].kind = "Panic"
                          THEN [a EXCEPT !.panicked = TRUE]
                          ELSE [a EXCEPT !.preview_content = content,
                                         !.preview_scroll = 0]
                 ELSE cleared

\* The (index, score) of items[i + 1] under the filter, if it matches.
MatchOf(a, i) ==
    LET filename == safe_filename_for_matching(a.items[i + 1])
    IN  IF filename = None THEN None
        ELSE LET m == fuzzy_match(a.filter, filename[1])
             IN  IF m = None THEN None ELSE Some(<<i, m[1].score>>)

\* Mutant: the selection is not reset after the list is rebuilt.
update_filter_keeps_selection(a) ==
    LET matches == FilterMap([n \in 1..Len(a.items) |-> MatchOf(a, n - 1)],
                             Len(a.items))
    IN  load_preview([a EXCEPT !.filtered_items = sort_matches(matches)])

\* Mutant: with an empty filter nothing is listed.
update_filter_lists_nothing_unfiltered(a) ==
    LET matches == FilterMap([n \in 1..Len(a.items) |-> MatchOf(a, n - 1)],
                             Len(a.items))
        sorted == IF a.filter = <<>> THEN <<>> ELSE sort_matches(matches)
    IN  load_preview([a EXCEPT
            !.filtered_items = sorted,
            !.list_state = IF sorted = <<>> THEN None ELSE Some(0)])

update_filter(a) ==
    LET matches == FilterMap([n \in 1..Len(a.items) |-> MatchOf(a, n - 1)],
                             Len(a.items))
        sorted == sort_matches(matches)
    IN  load_preview([a EXCEPT
            !.filtered_items = sorted,
            !.list_state = IF sorted = <<>> THEN None ELSE Some(0)])

\* The result has ok = FALSE when the read failed (the ? returned early).
load_directory(a, fail) ==
    LET dir == a.current_path
        first == IF parent(dir) # None THEN <<join(dir, DotDot)>> ELSE <<>>
    IN  IF fail # None
        THEN [app |-> [a EXCEPT !.items = first \o Entries(dir, fail[1])],
              ok |-> FALSE]
        ELSE [app |-> update_filter([a EXCEPT !.items =
                          sort_items(first \o
                                     Entries(dir, Len(RawChildren(dir))))]),
              ok |-> TRUE]

\* The App as App::new builds it, before load_directory.
Unloaded(directory, query) ==
    [current_path |-> directory, items |-> <<>>,
     list_state |-> None, filter |-> query,
     filtered_items |-> <<>>, preview_content |-> None,
     preview_scroll |-> 0, mode |-> "Normal", panicked |-> FALSE]

\* App::new, given config.directory and config.query.
new(directory, query, fail) ==
    LET a0 == Unloaded(directory, query)
        loaded == load_directory(a0, fail)
    IN  [app |-> IF loaded.ok THEN load_preview(loaded.app) ELSE loaded.app,
         ok |-> loaded.ok]

\* Mutant: the cursor stays on the last element instead of wrapping.
next_stops_at_last(a) ==
    LET len == Len(a.filtered_items)
        i == IF a.list_state = None THEN 0
             ELSE IF a.list_state[1] >= len - 1 THEN a.list_state[1]
             ELSE a.list_state[1] + 1
    IN  IF a.filtered_items # <<>>
        THEN load_preview([a EXCEPT !.list_state = Some(i)])
        ELSE a

\* i >= len - 1 with len = 0 overflows usize: a panic in a debug build, a
\* wrap to usize::MAX (so i + 1 is taken) in a release build; either way
\* the list is empty and nothing is selected.
next(a) ==
    LET len == Len(a.filtered_items)
        i == IF a.list_state = None THEN 0
             ELSE IF len = 0 THEN a.list_state[1] + 1
             ELSE IF a.list_state[1] >= len - 1 THEN 0
             ELSE a.list_state[1] + 1
    IN  IF a.filtered_items # <<>>
        THEN load_preview([a EXCEPT !.list_state = Some(i)])
        ELSE a

\* Mutant: previous stays on the first entry instead of wrapping to the
\* last.
previous_stops_at_first(a) ==
    LET i == IF a.list_state = None THEN 0
             ELSE IF a.list_state[1] = 0 THEN 0
             ELSE a.list_state[1] - 1
    IN  IF a.filtered_items # <<>>
        THEN load_preview([a EXCEPT !.list_state = Some(i)])
        ELSE a

previous(a) ==
    LET len == Len(a.filtered_items)
        i == IF a.list_state = None THEN 0
             ELSE IF a.list_state[1] = 0 THEN len - 1
             ELSE a.list_state[1] - 1
    IN  IF a.filtered_items # <<>>
        THEN load_preview([a EXCEPT !.list_state = Some(i)])
        ELSE a

ScrollStep == 5

\* Mutant: the offset moves whether or not a preview is loaded.
scroll_preview_down_without_preview(a) ==
    [a EXCEPT !.preview_scroll = a.preview_scroll + ScrollStep]

scroll_preview_down(a) ==
    IF a.preview_content # None
    THEN [a EXCEPT !.preview_scroll = @ + ScrollStep]
    ELSE a

\* usize::saturating_sub
scroll_preview_up(a) ==
    IF a.preview_content # None
    THEN [a EXCEPT !.preview_scroll = IF @ < ScrollStep THEN 0 ELSE @ - ScrollStep]
    ELSE a

\* Mutant: the filter is cleared before the entry is known to be a
\* directory, so selecting a file clears it too.
enter_selected_clears_filter_first(a, fail) ==
    IF selected_path(a) = None
    THEN [app |-> a, ret |-> Ok(None)]
    ELSE LET path == selected_path(a)[1]
             target ==
                 IF safe_filename_to_string(path) = DotDot
                 THEN (IF parent(a.current_path) # None
                       THEN parent(a.current_path)[1]
                       ELSE a.current_path)
                 ELSE path
             loaded == load_directory(
                 [a EXCEPT !.current_path = target, !.filter = <<>>], fail)
         IN  IF is_dir(path)
             THEN [app |-> loaded.app,
                   ret |-> IF loaded.ok THEN Ok(None) ELSE Err]
             ELSE [app |-> [a EXCEPT !.filter = <<>>], ret |-> Ok(Some(path))]

\* Mutant: entering the parent entry reloads the current directory instead
\* of moving to its parent.
enter_selected_stays_on_parent(a, fail) ==
    IF selected_path(a) = None
    THEN [app |-> a, ret |-> Ok(None)]
    ELSE LET path == selected_path(a)[1]
             target ==
                 IF safe_filename_to_string(path) = DotDot
                 THEN a.current_path
                 ELSE path
             loaded == load_directory(
                 [a EXCEPT !.current_path = target, !.filter = <<>>], fail)
         IN  IF is_dir(path)
             THEN [app |-> loaded.app,
                   ret |-> IF loaded.ok THEN Ok(None) ELSE Err]
             ELSE [app |-> a, ret |-> Ok(Some(path))]

\* Mutant: no selection is reported as an error.
enter_selected_without_selection_fails(a, fail) ==
    IF selected_path(a) = None
    THEN [app |-> a, ret |-> Err]
    ELSE LET path == selected_path(a)[1]
             target ==
                 IF safe_filename_to_string(path) = DotDot
                 THEN (IF parent(a.current_path) # None
                       THEN parent(a.current_path)[1]
                       ELSE a.current_path)
                 ELSE path
             loaded == load_directory(
                 [a EXCEPT !.current_path = target, !.filter = <<>>], fail)
         IN  IF is_dir(path)
             THEN [app |-> loaded.app,
                   ret |-> IF loaded.ok THEN Ok(None) ELSE Err]
             ELSE [app |-> a, ret |-> Ok(Some(path))]

enter_selected(a, fail) ==
    IF selected_path(a) = None
    THEN [app |-> a, ret |-> Ok(None)]
    ELSE LET path == selected_path(a)[1]
             target ==
                 IF safe_filename_to_string(path) = DotDot
                 THEN (IF parent(a.current_path) # None
                       THEN parent(a.current_path)[1]
                       ELSE a.current_path)
                 ELSE path
             loaded == load_directory(
                 [a EXCEPT !.current_path = target, !.filter = <<>>], fail)
         IN  IF is_dir(path)
             THEN [app |-> loaded.app,
                   ret |-> IF loaded.ok THEN Ok(None) ELSE Err]
             ELSE [app |-> a, ret |-> Ok(Some(path))]

add_char_to_filter(a, c) ==
    update_filter([a EXCEPT !.filter = Append(@, c)])

\* Mutant: the first character is removed instead of the last.
remove_char_from_filter_front(a) ==
    update_filter([a EXCEPT !.filter = IF @ = <<>> THEN <<>> ELSE Tail(@)])

\* String::pop removes the last character, if there is one.
remove_char_from_filter(a) ==
    update_filter([a EXCEPT !.filter = IF @ = <<>> THEN <<>> ELSE Front(@)])

clear_filter(a) == update_filter([a EXCEPT !.filter = <<>>])

\* Mutant: changing the mode reloads the preview.
set_mode_reloading_preview(a, m) == load_preview([a EXCEPT !.mode = m])

set_mode(a, m) == [a EXCEPT !.mode = m]

\* Mutant: going to the top also returns to the unfiltered listing.
go_to_top_clearing_filter(a) ==
    IF a.filtered_items # <<>>
    THEN clear_filter(a)
    ELSE a

go_to_top(a) ==
    IF a.filtered_items # <<>>
    THEN load_preview([a EXCEPT !.list_state = Some(0)])
    ELSE a

go_to_bottom(a) ==
    IF a.filtered_items # <<>>
    THEN load_preview([a EXCEPT !.list_state = Some(Len(a.filtered_items) - 1)])
    ELSE a

-----------------------------------------------------------------------------
(* src/main.rs: the single-mode program's App.  It has no preview and no    *)
(* mode; those fields of the record keep their initial values.              *)

\* str::contains
Contains(text, pat) ==
    \E i \in 0..(Len(text) - Len(pat)) : SubSeq(text, i + 1, i + Len(pat)) = pat

main_MatchOf(a, i) ==
    LET name_str == safe_filename_for_matching(a.items[i + 1])
    IN  IF name_str = None THEN None
        ELSE IF name_str[1] = DotDot
        THEN (IF Contains(DotDot, a.filter) THEN Some(<<i, 100>>) ELSE None)
        ELSE LET m == fuzzy_match(a.filter, name_str[1])
             IN  IF m = None THEN None ELSE Some(<<i, m[1].score>>)

main_update_filter(a) ==
    LET matches == FilterMap([n \in 1..Len(a.items) |-> main_MatchOf(a, n - 1)],
                             Len(a.items))
        filtered == IF a.filter = <<>>
                    THEN [n \in 1..Len(a.items) |-> <<n - 1, 0>>]
                    ELSE sort_matches(matches)
    IN  [a EXCEPT !.filtered_items = filtered,
                  !.list_state = IF filtered # <<>> THEN Some(0) ELSE None]

\* Subsequence of paths that are (or are not) directories, in order.
SelectDirs(paths, want) == SelectSeq(paths, LAMBDA p : is_dir(p) = want)

\* A failed read returns before dirs and files are added to items.
main_load_directory(a, fail) ==
    LET dir == a.current_path
        first == IF parent(dir) # None THEN <<join(dir, DotDot)>> ELSE <<>>
        entries == Entries(dir, Len(RawChildren(dir)))
        dirs == sort_paths(SelectDirs(entries, TRUE))
        files == sort_paths(SelectDirs(entries, FALSE))
    IN  IF fail # None
        THEN [app |-> [a EXCEPT !.items = first], ok |-> FALSE]
        ELSE [app |-> main_update_filter(
                          [a EXCEPT !.items = first \o dirs \o files]),
              ok |-> TRUE]

main_new(directory, query, fail) ==
    main_load_directory(Unloaded(directory, query), fail)

main_next(a) ==
    LET len == Len(a.filtered_items)
        i == IF a.list_state = None THEN 0
             ELSE IF a.list_state[1] >= len - 1 THEN 0
             ELSE a.list_state[1] + 1
    IN  IF a.filtered_items = <<>> THEN a
        ELSE [a EXCEPT !.list_state = Some(i)]

main_previous(a) ==
    LET len == Len(a.filtered_items)
        i == IF a.list_state = None THEN 0
             ELSE IF a.list_state[1] = 0 THEN len - 1
             ELSE a.list_state[1] - 1
    IN  IF a.filtered_items = <<>> THEN a
        ELSE [a EXCEPT !.list_state = Some(i)]

\* canon_ok = FALSE is path.canonicalize() failing, which returns before
\* anything is assigned.
main_enter_selected(a, canon_ok, fail) ==
    IF selected_path(a) = None
    THEN [app |-> a, ret |-> Ok(None)]
    ELSE LET path == selected_path(a)[1]
             loaded == main_load_directory(
                 [a EXCEPT !.current_path = canonicalize(path)], fail)
         IN  IF is_dir(path)
             THEN (IF ~canon_ok THEN [app |-> a, ret |-> Err]
                   ELSE [app |-> loaded.app,
                         ret |-> IF loaded.ok THEN Ok(None) ELSE Err])
             ELSE [app |-> a, ret |-> Ok(Some(path))]

\* char::is_whitespace for the characters of the model.
is_whitespace(c) == c = " "

\* str::trim: without its leading and trailing whitespace.
RECURSIVE trim(_)
trim(s) ==
    IF s = <<>> THEN <<>>
    ELSE IF is_whitespace(Head(s)) THEN trim(Tail(s))
    ELSE IF is_whitespace(Last(s)) THEN trim(Front(s))
    ELSE s

\* One element of the output, from items[i] and its score.
SearchResult(path, score) ==
    [path |-> path, score |-> score,
     name |-> safe_filename_to_string(path), is_dir |-> is_dir(path)]

\* Mutant: every entry is emitted, however many there are.
get_search_results_uncapped(a) ==
    LET effective_query == trim(a.filter)
        items_to_process ==
            IF effective_query = <<>>
            THEN [n \in 1..Len(a.items) |-> <<n - 1, 0>>]
            ELSE a.filtered_items
    IN  [n \in 1..Len(items_to_process) |->
            SearchResult(a.items[items_to_process[n][1] + 1],
                         items_to_process[n][2])]

get_search_results(a) ==
    LET effective_query == trim(a.filter)
        items_to_process ==
            IF effective_query = <<>>
            THEN [n \in 1..Len(a.items) |-> <<n - 1, 0>>]
            ELSE a.filtered_items
        taken == IF Len(items_to_process) < max_results
                 THEN Len(items_to_process) ELSE max_results
    IN  [n \in 1..taken |->
            SearchResult(a.items[items_to_process[n][1] + 1],
                         items_to_process[n][2])]

main_add_char_to_filter(a, c) ==
    main_update_filter([a EXCEPT !.filter = Append(@, c)])

main_remove_char_from_filter(a) ==
    main_update_filter([a EXCEPT !.filter = IF @ = <<>> THEN <<>> ELSE Front(@)])

main_clear_filter(a) == main_update_filter([a EXCEPT !.filter = <<>>])

-----------------------------------------------------------------------------
(* The state machine: one action per public operation of the App.           *)

\* The characters a user types and the queries --query gives at startup.
TypedChars == {"a", "B", "."}
StartQueries == {<<>>, <<"a">>}
Modes == {"Normal", "Insert"}

\* No key was read; no call of fuzzy_match on its own was made.
NoKey == <<>>
NoCall == [pattern |-> <<>>, text |-> <<>>, done |-> FALSE, result |-> None]

\* The key code code was read and with it op took the App to a2 and
\* returned r.
Pressed(code, op, a2, r) ==
    /\ app' = a2
    /\ key' = code
    /\ last_op' = op
    /\ prev_op' = last_op
    /\ ret' = r
    /\ pre' = app
    /\ UNCHANGED <<program, disk, call>>

\* An operation op took the App to a2 and returned r.
Did(op, a2, r) == Pressed(NoKey, op, a2, r)

Running(prog) == program = prog /\ ~app.panicked

\* The state after App::new succeeded (a failed read aborts startup).
Init ==
    /\ program = "app"
    /\ disk = "small"
    /\ key = NoKey
    /\ call = NoCall
    /\ \E d \in Dirs, q \in StartQueries :
          /\ app = new(d, q, None).app
          /\ ~app.panicked
    /\ last_op = "new"
    /\ prev_op = "none"
    /\ ret = Ok(None)
    /\ pre = app

MoveNext == Running("app") /\ Did("next", next(app), Ok(None))

MovePrevious == Running("app") /\ Did("previous", previous(app), Ok(None))

GoToTop == Running("app") /\ Did("go_to_top", go_to_top(app), Ok(None))

GoToBottom == Running("app") /\ Did("go_to_bottom", go_to_bottom(app), Ok(None))

ScrollPreviewDown ==
    /\ Running("app")
    /\ app.preview_scroll + ScrollStep <= ScrollStep * MaxScrollSteps
    /\ Did("scroll_preview_down", scroll_preview_down(app), Ok(None))

ScrollPreviewUp ==
    Running("app") /\ Did("scroll_preview_up", scroll_preview_up(app), Ok(None))

EnterSelected ==
    /\ Running("app")
    /\ \E fail \in ReadOutcomes :
          LET r == enter_selected(app, fail)
          IN  Did("enter_selected", r.app, r.ret)

AddCharToFilter ==
    /\ Running("app")
    /\ Len(app.filter) < MaxQuery
    /\ \E c \in TypedChars :
          Did("add_char_to_filter", add_char_to_filter(app, c), Ok(None))

RemoveCharFromFilter ==
    /\ Running("app")
    /\ Did("remove_char_from_filter", remove_char_from_filter(app), Ok(None))

ClearFilter == Running("app") /\ Did("clear_filter", clear_filter(app), Ok(None))

SetMode ==
    /\ Running("app")
    /\ \E m \in Modes : Did("set_mode", set_mode(app, m), Ok(None))

Next ==
    \/ MoveNext
    \/ MovePrevious
    \/ GoToTop
    \/ GoToBottom
    \/ ScrollPreviewDown
    \/ ScrollPreviewUp
    \/ EnterSelected
    \/ AddCharToFilter
    \/ RemoveCharFromFilter
    \/ ClearFilter
    \/ SetMode

Spec == Init /\ [][Next]_vars

\* The program of main.rs.
InitMain ==
    /\ program = "main"
    /\ disk = "small"
    /\ key = NoKey
    /\ call = NoCall
    /\ \E d \in Dirs, q \in StartQueries : app = main_new(d, q, None).app
    /\ last_op = "new"
    /\ prev_op = "none"
    /\ ret = Ok(None)
    /\ pre = app

\* crossterm's KeyCode: Char(c) and the named keys of run_app's match, and
\* Tab for the keys it has no arm for.
KeyChar(c) == <<"Char", c>>
KeyDown == <<"Down">>
KeyUp == <<"Up">>
KeyEnter == <<"Enter">>
KeyEsc == <<"Esc">>
KeyBackspace == <<"Backspace">>
KeyTab == <<"Tab">>

\* run_app has returned: q was pressed, or enter_selected gave a file.
Returned ==
    \/ last_op = "quit"
    \/ last_op = "enter_selected" /\ ret.kind = "Ok" /\ ret.value # None

\* run_app is in its loop, waiting for a key.
InLoop == Running("main") /\ ~Returned

\* One action per arm of run_app's match on key.code, in its order.
MainQuit == InLoop /\ Pressed(KeyChar("q"), "quit", app, Ok(None))

MainNext ==
    /\ InLoop
    /\ \E code \in {KeyDown, KeyChar("j")} :
          Pressed(code, "next", main_next(app), Ok(None))

MainPrevious ==
    /\ InLoop
    /\ \E code \in {KeyUp, KeyChar("k")} :
          Pressed(code, "previous", main_previous(app), Ok(None))

MainEnterSelected ==
    /\ InLoop
    /\ \E canon_ok \in BOOLEAN, fail \in ReadOutcomes :
          LET r == main_enter_selected(app, canon_ok, fail)
          IN  Pressed(KeyEnter, "enter_selected", r.app, r.ret)

MainClearFilter ==
    InLoop /\ Pressed(KeyEsc, "clear_filter", main_clear_filter(app), Ok(None))

MainRemoveCharFromFilter ==
    /\ InLoop
    /\ Pressed(KeyBackspace, "remove_char_from_filter",
               main_remove_char_from_filter(app), Ok(None))

\* KeyCode::Char(c) comes after the arms for q, j and k.
MainAddCharToFilter ==
    /\ InLoop
    /\ Len(app.filter) < MaxQuery
    /\ \E c \in TypedChars \ {"q", "j", "k"} :
          Pressed(KeyChar(c), "add_char_to_filter",
                  main_add_char_to_filter(app, c), Ok(None))

MainIgnoredKey == InLoop /\ Pressed(KeyTab, "ignored", app, Ok(None))

NextMain ==
    \/ MainQuit
    \/ MainNext
    \/ MainPrevious
    \/ MainEnterSelected
    \/ MainClearFilter
    \/ MainRemoveCharFromFilter
    \/ MainAddCharToFilter
    \/ MainIgnoredKey

SpecMain == InitMain /\ [][NextMain]_vars

\* main.rs run with --json: App::new for the directory and --query given,
\* then get_search_results, whose result is printed.  The operations are
\* those of main.rs's App.
JsonChars == {"a", "w", ".", " "}

\* main has parsed its arguments; no App is built yet.
InitJson ==
    /\ program = "json"
    /\ disk \in {"small", "wide"}
    /\ key = NoKey
    /\ call = NoCall
    /\ \E d \in Dirs, q \in Strings(JsonChars, MaxQuery) : app = Unloaded(d, q)
    /\ last_op = "from_args"
    /\ prev_op = "none"
    /\ ret = Ok(None)
    /\ pre = app

\* App::new(config)?: when the directory cannot be read main returns the
\* error and nothing is emitted.
JsonNew ==
    /\ program = "json"
    /\ last_op = "from_args"
    /\ \E fail \in {None, Some(0)} :
          LET r == main_new(app.current_path, app.filter, fail)
          IN  Did("new", r.app, IF r.ok THEN Ok(None) ELSE Err)

GetSearchResults ==
    /\ program = "json"
    /\ last_op = "new"
    /\ ret.kind = "Ok"
    /\ Did("get_search_results", app, Ok(get_search_results(app)))

NextJson == JsonNew \/ GetSearchResults

SpecJson == InitJson /\ [][NextJson]_vars

\* Either program.
NextBoth == Next \/ NextMain

SpecBoth == (Init \/ InitMain) /\ [][NextBoth]_vars

-----------------------------------------------------------------------------
(* fuzzy_match called on its own, on every pattern and text within the      *)
(* bounds.  No App is involved: app holds one that was never loaded.        *)

FuzzyChars == {"a", "A", "b", "_", "Sigma", "sigma"}

\* Two calls on longer arguments: one that matches, one that does not.
GoToTopText == <<"g", "o", "_", "t", "o", "_", "t", "o", "p">>

FuzzyExamples ==
    {[pattern |-> <<"g", "t", "o">>, text |-> GoToTopText],
     [pattern |-> <<"x", "y", "z">>, text |-> GoToTopText],
     [pattern |-> <<"t", "o", "p">>, text |-> <<"/", "t", "-", "o", ".", "p">>]}

InitFuzzy ==
    /\ program = "fuzzy"
    /\ disk = "small"
    /\ key = NoKey
    /\ \/ \E p \in Strings(FuzzyChars, MaxPattern),
                t \in Strings(FuzzyChars, MaxText) :
              call = [pattern |-> p, text |-> t, done |-> FALSE, result |-> None]
       \/ \E e \in FuzzyExamples :
              call = [pattern |-> e.pattern, text |-> e.text,
                      done |-> FALSE, result |-> None]
    /\ app = Unloaded(Root, <<>>)
    /\ last_op = "none"
    /\ prev_op = "none"
    /\ ret = Ok(None)
    /\ pre = app

FuzzyMatchCall ==
    /\ program = "fuzzy"
    /\ ~call.done
    /\ call' = [call EXCEPT !.done = TRUE,
                            !.result = fuzzy_match(call.pattern, call.text)]
    /\ last_op' = "fuzzy_match"
    /\ prev_op' = last_op
    /\ UNCHANGED <<app, program, disk, key, ret, pre>>

NextFuzzy == FuzzyMatchCall

SpecFuzzy == InitFuzzy /\ [][NextFuzzy]_vars

-----------------------------------------------------------------------------
(* Properties.  In the words of the specification: Snapshot is app.items,   *)
(* Query is app.filter, RankedList is app.filtered_items, Cursor is         *)
(* app.list_state, activateSelection is enter_selected.                     *)

\* The last operation left the current directory, Snapshot, Query,
\* RankedList and Cursor as they were.
CoreUnchanged ==
    /\ app.current_path = pre.current_path
    /\ app.items = pre.items
    /\ app.filter = pre.filter
    /\ app.filtered_items = pre.filtered_items
    /\ app.list_state = pre.list_state

\* The Snapshot holds exactly the listing of dir: its parent entry (when it
\* has a parent) and its children, each once.
IsListingOf(items, dir) ==
    /\ Len(items) = Len(RawChildren(dir)) + (IF parent(dir) # None THEN 1 ELSE 0)
    /\ {items[i] : i \in 1..Len(items)} =
           {join(dir, RawChildren(dir)[i]) : i \in 1..Len(RawChildren(dir))}
           \cup (IF parent(dir) # None THEN {join(dir, DotDot)} ELSE {})

\* The last operation was enter_selected with the cursor resolving to an
\* entry.
EnteredEntry == last_op = "enter_selected" /\ selected_path(pre) # None

\* C1: after any sequence of public operations the Cursor is None iff the
\* RankedList is empty, and otherwise 0 <= Cursor < length of RankedList.
CursorBound ==
    /\ (app.list_state = None) <=> (app.filtered_items = <<>>)
    /\ app.list_state # None =>
           /\ 0 <= app.list_state[1]
           /\ app.list_state[1] < Len(app.filtered_items)

\* C1 witness: a character was typed with the cursor off index 0 and the
\* rebuilt list is too short for the old cursor.
CursorBoundWitness ==
    /\ last_op = "add_char_to_filter"
    /\ pre.list_state # None
    /\ pre.list_state[1] > 0
    /\ Len(app.filtered_items) <= pre.list_state[1]

\* C2: when the directory read of a navigation fails, the current directory,
\* Snapshot, Query, RankedList and Cursor are what they were before, and the
\* error is returned.
FailedReadChangesNothing ==
    (last_op = "enter_selected" /\ ret = Err) => CoreUnchanged

\* C3: in every reachable state every index stored in RankedList is a valid
\* index into the current Snapshot.
RankedIndicesInSnapshot ==
    \A j \in 1..Len(app.filtered_items) :
        /\ 0 <= app.filtered_items[j][1]
        /\ app.filtered_items[j][1] < Len(app.items)

\* C4: whenever Query is empty, RankedList holds every Snapshot index once,
\* in Snapshot order, with score 0; its first element is the parent entry
\* when the current directory has a parent.
EmptyQueryListsSnapshot ==
    (~app.panicked /\ app.filter = <<>>) =>
        /\ app.filtered_items = [n \in 1..Len(app.items) |-> <<n - 1, 0>>]
        /\ parent(app.current_path) # None =>
              /\ app.filtered_items # <<>>
              /\ app.items[app.filtered_items[1][1] + 1]
                     = join(app.current_path, DotDot)

\* C5: for a non-empty Query the parent entry is in RankedList iff
\* match(Query, "..") matches, and then with exactly that score.
ParentRankedAsDotDot ==
    (~app.panicked /\ app.filter # <<>>) =>
        \A i \in 1..Len(app.items) :
            app.items[i] = join(app.current_path, DotDot) =>
                LET m == fuzzy_match(app.filter, DotDot)
                    at == {j \in 1..Len(app.filtered_items) :
                              app.filtered_items[j][1] = i - 1}
                IN  /\ (at # {}) <=> (m # None)
                    /\ \A j \in at : app.filtered_items[j][2] = m[1].score

\* C6 as claimed: appending a character and then popping it restores the
\* RankedList and the Cursor that existed before the append.
AppendPopRestores ==
    [][(last_op = "add_char_to_filter"
        /\ last_op' = "remove_char_from_filter") =>
           /\ app'.filtered_items = pre.filtered_items
           /\ app'.list_state = pre.list_state]_vars

\* C6 as amended: appending a character and then popping it restores Query
\* and leaves the RankedList a rebuild for that Query gives; the Cursor is
\* reset to the first element (None when the list is empty), not restored.
AppendPopRebuilds ==
    [][(last_op = "add_char_to_filter"
        /\ last_op' = "remove_char_from_filter") =>
           /\ app'.filter = pre.filter
           /\ app'.items = pre.items
           /\ app'.filtered_items = update_filter(pre).filtered_items
           /\ app'.list_state =
                  IF app'.filtered_items = <<>> THEN None ELSE Some(0)]_vars

\* C6 witness: a character was appended and popped again, over a non-empty
\* list.
AppendPopWitness ==
    /\ last_op = "remove_char_from_filter"
    /\ prev_op = "add_char_to_filter"
    /\ app.filtered_items # <<>>
    /\ ~app.panicked

\* C7: enter_selected on a directory entry other than the parent, when the
\* read succeeds, makes it the current directory, replaces the Snapshot by
\* its listing, clears Query, leaves the Cursor at Some(0) if the directory
\* has a child (None only if RankedList is empty) and returns no file.
EnterDirectoryNavigates ==
    (/\ EnteredEntry
     /\ ~app.panicked
     /\ is_dir(selected_path(pre)[1])
     /\ Last(selected_path(pre)[1]) # DotDot
     /\ ret.kind = "Ok") =>
        /\ app.current_path = selected_path(pre)[1]
        /\ IsListingOf(app.items, app.current_path)
        /\ app.filter = <<>>
        /\ RawChildren(app.current_path) # <<>> => app.list_state = Some(0)
        /\ app.list_state = None => app.filtered_items = <<>>
        /\ ret.value = None

EnterFileReturnsPath ==
    (EnteredEntry /\ ~is_dir(selected_path(pre)[1])) =>
        /\ ret = Ok(Some(selected_path(pre)[1]))
        /\ CoreUnchanged

\* C9 witness: a file was entered, under a non-empty Query.
EnterFileWitness ==
    /\ EnteredEntry
    /\ ~is_dir(selected_path(pre)[1])
    /\ pre.filter # <<>>
    /\ ret.value # None

\* C10: enter_selected with Cursor None returns "no selection" without an
\* error and changes nothing.
EnterWithoutSelectionIsNoOp ==
    (last_op = "enter_selected" /\ pre.list_state = None) =>
        /\ ret = Ok(None)
        /\ CoreUnchanged

\* C10 witness: enter_selected ran with Cursor None.
EnterWithoutSelectionWitness ==
    /\ last_op = "enter_selected"
    /\ pre.list_state = None
    /\ pre.filtered_items = <<>>

\* The operations that only move the Cursor.
CursorMoves == {"next", "previous", "go_to_top", "go_to_bottom"}

\* C11: next sets the Cursor to (Cursor + 1) modulo the length of the
\* RankedList and previous to (Cursor - 1) modulo the length, so that they
\* wrap at either end; on an empty RankedList both change nothing and the
\* Cursor stays None.
CursorMovesWrap ==
    LET len == Len(pre.filtered_items)
    IN  /\ (last_op = "next" /\ len > 0) =>
               app.list_state = Some((pre.list_state[1] + 1) % len)
        /\ (last_op = "previous" /\ len > 0) =>
               app.list_state = Some((pre.list_state[1] + len - 1) % len)
        /\ (last_op \in {"next", "previous"} /\ len = 0) =>
               /\ app = pre
               /\ app.list_state = None

\* C11 witness: next wrapped from the last element to index 0 and previous
\* wrapped back to the last, in a list of at least three.
CursorMovesWrapWitness ==
    /\ last_op = "previous"
    /\ prev_op = "next"
    /\ Len(app.filtered_items) >= 3
    /\ pre.list_state = Some(0)
    /\ app.list_state = Some(Len(app.filtered_items) - 1)

\* C12: next, previous, go_to_top and go_to_bottom never change the current
\* directory, Snapshot, Query, RankedList or Mode.
CursorMovesKeepQuery ==
    last_op \in CursorMoves =>
        /\ app.current_path = pre.current_path
        /\ app.items = pre.items
        /\ app.filter = pre.filter
        /\ app.filtered_items = pre.filtered_items
        /\ app.mode = pre.mode

\* C12 witness: two Cursor moves in a row under a typed Query, in Insert
\* mode, the second of which moved the Cursor.
CursorMovesKeepQueryWitness ==
    /\ last_op \in CursorMoves
    /\ prev_op \in CursorMoves
    /\ app.filter # <<>>
    /\ app.mode = "Insert"
    /\ app.list_state # pre.list_state

\* p occurs in t as a subsequence: its characters, in order, at increasing
\* positions of t.
RECURSIVE IsSubsequence(_, _)
IsSubsequence(p, t) ==
    IF p = <<>> THEN TRUE
    ELSE IF t = <<>> THEN FALSE
    ELSE \/ Head(p) = Head(t) /\ IsSubsequence(Tail(p), Tail(t))
         \/ IsSubsequence(p, Tail(t))

\* C13: if fuzzy_match(P, C) returns a match then the lowercased characters
\* of P occur in order as a subsequence of the lowercased characters of C;
\* and for the empty P it returns a match of score exactly 0, whatever C.
MatchIsSubsequence ==
    call.done =>
        /\ call.result # None =>
               IsSubsequence(to_lowercase(call.pattern), to_lowercase(call.text))
        /\ call.pattern = <<>> =>
               /\ call.result # None
               /\ call.result[1].score = 0

\* C13 witness: a pattern of two characters, one of them upper case,
\* matched a text at positions that are not adjacent.
MatchIsSubsequenceWitness ==
    /\ call.done
    /\ call.result # None
    /\ Len(call.pattern) = 2
    /\ call.pattern # to_lowercase(call.pattern)
    /\ call.result[1].matched_indices = <<0, 2>>

RankedListSorted ==
    \A j, k \in 1..Len(app.filtered_items) :
        j < k =>
            /\ app.filtered_items[j][2] >= app.filtered_items[k][2]
            /\ app.filtered_items[j][2] = app.filtered_items[k][2] =>
                   app.filtered_items[j][1] < app.filtered_items[k][1]

\* C15 witness: a rebuild for a non-empty Query gave a list with two
\* entries of equal score, a lower score after them, and an entry ranked
\* before one of a smaller Snapshot index.
RankedListSortedWitness ==
    /\ last_op = "add_char_to_filter"
    /\ \E j, k \in 1..Len(app.filtered_items) :
          /\ j < k
          /\ app.filtered_items[j][2] = app.filtered_items[k][2]
    /\ \E j, k \in 1..Len(app.filtered_items) :
          /\ j < k
          /\ app.filtered_items[j][2] > app.filtered_items[k][2]
          /\ app.filtered_items[j][1] > app.filtered_items[k][1]

\* The last operation loaded a directory and the read succeeded.
Loaded ==
    \/ last_op = "new"
    \/ /\ EnteredEntry
       /\ is_dir(selected_path(pre)[1])
       /\ ret.kind = "Ok"

\* C16: after a successful load the Snapshot has the parent entry first iff
\* the current directory has a parent; among the other entries no file is
\* before a directory, and entries of one kind are in ascending code point
\* order of file name.
SnapshotOrdered ==
    Loaded =>
        LET dir == app.current_path
            has_parent == parent(dir) # None
            rest == IF has_parent THEN Tail(app.items) ELSE app.items
        IN  /\ has_parent =>
                   app.items # <<>> /\ app.items[1] = join(dir, DotDot)
            /\ \A i \in 1..Len(rest) : Last(rest[i]) # DotDot
            /\ \A i, j \in 1..Len(rest) :
                   i < j =>
                       /\ is_dir(rest[i]) \/ ~is_dir(rest[j])
                       /\ is_dir(rest[i]) = is_dir(rest[j]) =>
                              StrCmp(Last(rest[i]), Last(rest[j])) = "Less"

\* C16 witness: /B was entered and read: it has a parent, a directory and
\* files, and read_dir does not yield them in order.
SnapshotOrderedWitness ==
    /\ EnteredEntry
    /\ ret = Ok(None)
    /\ app.current_path = DirB
    /\ Len(app.items) = 6

\* C17: set_mode changes the Mode and nothing else, and the Mode after
\* startup is Normal.
ModeChangeOnlyMode ==
    /\ last_op = "set_mode" => app = [pre EXCEPT !.mode = app.mode]
    /\ last_op = "new" => app.mode = "Normal"

\* C17 witness: the Mode went from Normal to Insert under a typed Query
\* with a preview scrolled down.
ModeChangeOnlyModeWitness ==
    /\ last_op = "set_mode"
    /\ pre.mode = "Normal"
    /\ app.mode = "Insert"
    /\ app.filter # <<>>
    /\ app.preview_content # None
    /\ app.preview_scroll > 0

\* C18: a keystroke appends a character to Query or pops its last character
\* only while Mode is Insert; while Mode is Normal the only keystroke that
\* changes Query is the clear key, which empties it and leaves Mode Normal;
\* and the key that returns from Insert to Normal leaves Query unchanged.
KeysEditQueryOnlyInInsert ==
    key # NoKey =>
        /\ (\/ \E c \in TypedChars : app.filter = Append(pre.filter, c)
            \/ pre.filter # <<>> /\ key # KeyEsc
                                 /\ app.filter = Front(pre.filter)) =>
               pre.mode = "Insert"
        /\ (pre.mode = "Normal" /\ app.filter # pre.filter) =>
               /\ key = KeyEsc
               /\ app.filter = <<>>
               /\ app.mode = "Normal"
        /\ (pre.mode = "Insert" /\ app.mode = "Normal") =>
               app.filter = pre.filter

\* What the preview of the entry the Cursor resolves to is: nothing when
\* the Cursor resolves to no entry or to a directory (the parent entry is
\* one), the preview text of the file otherwise.
ExpectedPreview(a) ==
    IF selected_path(a) = None THEN None
    ELSE IF is_dir(selected_path(a)[1]) THEN None
    ELSE read_file_content(selected_path(a)[1])

\* C19: after every operation that changes Cursor, Query or Snapshot the
\* preview is that of the entry the Cursor now resolves to, at scroll
\* offset 0.
PreviewFollowsSelection ==
    (/\ ~app.panicked
     /\ \/ last_op = "new"
        \/ app.list_state # pre.list_state
        \/ app.filter # pre.filter
        \/ app.items # pre.items) =>
        /\ app.preview_content = ExpectedPreview(app)
        /\ app.preview_scroll = 0

\* The first n elements of a list, all of them when it has fewer.
Take(list, n) == SubSeq(list, 1, IF Len(list) < n THEN Len(list) ELSE n)

\* The emitted results are those of the (index, score) pairs of ranked, in
\* order.
EmittedAre(ranked) ==
    /\ Len(ret.value) = Len(ranked)
    /\ \A n \in 1..Len(ranked) :
          /\ ret.value[n].path = app.items[ranked[n][1] + 1]
          /\ ret.value[n].score = ranked[n][2]

\* C20 as claimed: for any directory and query the results the headless
\* mode emits are the first min(100, length) elements of the RankedList
\* computed for that directory and query, in its order and with its scores.
HeadlessEmitsRankedList ==
    last_op = "get_search_results" =>
        EmittedAre(Take(app.filtered_items, 100))

\* C20 as amended: that holds for the empty Query and for every Query that
\* has a character other than whitespace; for a Query of whitespace only
\* the results are the first min(100, length) Snapshot entries in Snapshot
\* order, each with score 0.
HeadlessEmitsRankedListUnlessBlank ==
    last_op = "get_search_results" =>
        IF app.filter # <<>> /\ \A i \in 1..Len(app.filter) : app.filter[i] = " "
        THEN EmittedAre(Take([n \in 1..Len(app.items) |-> <<n - 1, 0>>], 100))
        ELSE EmittedAre(Take(app.filtered_items, 100))

\* C20 witness: a Query that is not blank ranked more than 100 entries and
\* 100 were emitted.
HeadlessCapWitness ==
    /\ last_op = "get_search_results"
    /\ app.filter # <<>>
    /\ trim(app.filter) = app.filter
    /\ Len(app.filtered_items) > 100
    /\ Len(ret.value) = 100

\* The positions (0-based) at which a left-to-right scan of t from position
\* `from` finds the characters of p, each at the first place it can.
RECURSIVE GreedyPositions(_, _, _)
GreedyPositions(p, t, from) ==
    IF p = <<>> \/ from >= Len(t) THEN <<>>
    ELSE IF t[from + 1] = Head(p)
    THEN <<from>> \o GreedyPositions(Tail(p), t, from + 1)
    ELSE GreedyPositions(p, t, from + 1)

\* What the k-th of the matched positions adds to the score of t.
PositionScore(t, positions, k) ==
    10
    + (IF k > 1 /\ positions[k] = positions[k - 1] + 1 THEN 5 ELSE 0)
    + (IF positions[k] = 0 THEN 15 ELSE 0)
    + (IF positions[k] > 0 /\ t[positions[k]] \in {"/", "_", "-", "."}
       THEN 10 ELSE 0)

RECURSIVE PositionScoreSum(_, _, _)
PositionScoreSum(t, positions, k) ==
    IF k = 0 THEN 0
    ELSE PositionScoreSum(t, positions, k - 1) + PositionScore(t, positions, k)

\* C21: for a non-empty pattern that matches, the score is the sum, over the
\* greedily matched positions of the lowercased candidate, of 10, plus 5 at
\* a position one past the previous matched one, plus 15 at position 0, plus
\* 10 after one of / _ - . ; less the candidate's length.  "gto" matches
\* "go_to_top" with a positive score and "xyz" does not match it.
ScoreIsSumOfBonuses ==
    call.done =>
        /\ (call.pattern # <<>> /\ call.result # None) =>
               LET t == to_lowercase(call.text)
                   positions == GreedyPositions(to_lowercase(call.pattern), t, 0)
               IN  /\ call.result[1].matched_indices = positions
                   /\ call.result[1].score =
                          PositionScoreSum(t, positions, Len(positions)) - Len(t)
        /\ (call.pattern = <<"g", "t", "o">> /\ call.text = GoToTopText) =>
               /\ call.result # None
               /\ call.result[1].score > 0
        /\ (call.pattern = <<"x", "y", "z">> /\ call.text = GoToTopText) =>
               call.result = None

\* C21 witness: "gto" matched "go_to_top" at 0 (the beginning), 3 (after a
\* separator) and 4 (consecutive): 25 + 20 + 15 - 9.
ScoreIsSumOfBonusesWitness ==
    /\ call.done
    /\ call.pattern = <<"g", "t", "o">>
    /\ call.text = GoToTopText
    /\ call.result # None
    /\ call.result[1].matched_indices = <<0, 3, 4>>
    /\ call.result[1].score = 51

\* The two cases of a letter.
CaseForms(c) ==
    CASE c \in {"a", "A"} -> {"a", "A"}
      [] c \in {"b", "B"} -> {"b", "B"}
      [] c \in {"sigma", "Sigma"} -> {"sigma", "Sigma"}
      [] OTHER -> {c}

\* The strings that differ from s in the case of letters only.
CaseVariants(s) ==
    {v \in [1..Len(s) -> UNION {CaseForms(c) : c \in FuzzyChars}] :
        \A i \in 1..Len(s) : v[i] \in CaseForms(s[i])}

\* C22: changing the case of letters of the pattern or of the candidate
\* changes neither whether fuzzy_match matches nor the score it returns.
CaseInsensitive ==
    call.done =>
        \A p2 \in CaseVariants(call.pattern), t2 \in CaseVariants(call.text) :
            LET other == fuzzy_match(p2, t2)
            IN  /\ (other = None) <=> (call.result = None)
                /\ other # None => other[1].score = call.result[1].score

\* C23: scroll_preview_down adds exactly 5 to the preview's scroll offset,
\* scroll_preview_up takes 5 off it but never goes below 0, and with no
\* preview loaded both leave the offset as it is; nothing else changes, in
\* particular not Cursor, Query, RankedList or the preview's text.
ScrollMovesOffsetOnly ==
    last_op \in {"scroll_preview_down", "scroll_preview_up"} =>
        LET offset ==
                IF pre.preview_content = None THEN pre.preview_scroll
                ELSE IF last_op = "scroll_preview_down"
                THEN pre.preview_scroll + 5
                ELSE IF pre.preview_scroll >= 5 THEN pre.preview_scroll - 5
                ELSE 0
        IN  app = [pre EXCEPT !.preview_scroll = offset]

\* C23 witness: with a preview loaded, the offset went down twice, to 10,
\* and the Cursor is not on the first entry.
ScrollMovesOffsetOnlyWitness ==
    /\ last_op = "scroll_preview_down"
    /\ prev_op = "scroll_preview_down"
    /\ app.preview_content # None
    /\ app.preview_scroll = 10
    /\ app.list_state # None
    /\ app.list_state[1] > 0

\* The file at path is one read_file_content reads as text: it can be read,
\* holds no NUL, and its extension is not one of the binary ones.
IsReadableText(path) ==
    /\ ~is_dir(path)
    /\ file_name(path) # None
    /\ FileInfo(path).readable
    /\ ~FileInfo(path).nul
    /\ ~(/\ extension(path) # None
         /\ to_lowercase(extension(path)[1]) \in binary_extensions)

\* C24: when an operation has loaded the preview of a readable text file,
\* the load completed, and the preview is the file's first 50,000 bytes
\* followed by the marker naming its size when it is larger than 50,000
\* bytes, whatever characters lie around the cut, and the whole file
\* otherwise.
LargeFilePreviewTruncated ==
    (/\ last_op \notin {"scroll_preview_down", "scroll_preview_up", "set_mode"}
     /\ ret = Ok(None)
     /\ selected_path(app) # None
     /\ IsReadableText(selected_path(app)[1])) =>
        LET path == selected_path(app)[1]
            len == FileInfo(path).len
        IN  /\ ~app.panicked
            /\ app.preview_content =
                   Some(IF len > 50000
                        THEN Text("Truncated", path, 50000, len)
                        ELSE Text("Whole", path, len, len))

\* C25: the scan is complete: for a non-empty pattern P, if the lowercased
\* P is a subsequence of the lowercased candidate C then fuzzy_match(P, C)
\* returns a match.
GreedyScanComplete ==
    (/\ call.done
     /\ call.pattern # <<>>
     /\ IsSubsequence(to_lowercase(call.pattern), to_lowercase(call.text))) =>
        call.result # None

\* C25 witness: the pattern "bA" was found in "aba", where its first
\* character is not the candidate's first and the candidate's first
\* character is the pattern's second.
GreedyScanCompleteWitness ==
    /\ call.done
    /\ call.pattern = <<"b", "A">>
    /\ call.text = <<"a", "b", "a">>
    /\ call.result # None
    /\ call.result[1].matched_indices = <<1, 2>>

\* The App after k calls of next.
RECURSIVE MovedNext(_, _)
MovedNext(a, k) == IF k = 0 THEN a ELSE next(MovedNext(a, k - 1))

\* From a the user can go up: clearing the Query, moving the Cursor down
\* some number of times (through every index of the RankedList) and
\* activating the selection, with the parent directory readable, leaves the
\* program running in the parent of a's current directory.
CanGoUp(a) ==
    LET cleared == clear_filter(a)
    IN  \E k \in 0..Len(cleared.filtered_items) :
            LET entered == enter_selected(MovedNext(cleared, k), None)
            IN  /\ ~entered.app.panicked
                /\ entered.ret = Ok(None)
                /\ entered.app.current_path = parent(a.current_path)[1]

\* C26: the user is never trapped: in every reachable state whose current
\* directory has a parent (an empty one that was just entered included),
\* some finite sequence of clearing the Query, moving the Cursor and
\* activating the selection makes that parent the current directory.
NeverTrapped ==
    (~app.panicked /\ parent(app.current_path) # None) => CanGoUp(app)

\* The Cursors after 1, 2, ..., n calls of next from a.
CursorsOfNext(a, n) == [k \in 1..n |-> MovedNext(a, k).list_state]

\* C27: on a non-empty RankedList of length n, previous undoes next and
\* next undoes previous (the Cursor is back at its index), and n calls of
\* next from any Cursor position visit every index of the RankedList
\* exactly once and end where they started.  The calls are ones that
\* complete: a preview load that panics ends the program.
NextPreviousInverse ==
    (/\ last_op \in {"next", "previous"}
     /\ pre.filtered_items # <<>>
     /\ ~app.panicked) =>
        LET n == Len(pre.filtered_items)
            back == IF last_op = "next" THEN previous(app) ELSE next(app)
            cursors == CursorsOfNext(pre, n)
        IN  /\ ~back.panicked => back.list_state = pre.list_state
            /\ (last_op = "next" /\ ~MovedNext(pre, n).panicked) =>
                   /\ app = MovedNext(pre, 1)
                   /\ \A i \in 0..(n - 1) :
                          Cardinality({k \in 1..n : cursors[k] = Some(i)}) = 1
                   /\ cursors[n] = pre.list_state

\* C27 witness: next wrapped from the last of four entries to the first,
\* previous from there is back on the last, and the four calls of next
\* from the last entry all complete.
NextPreviousInverseWitness ==
    /\ last_op = "next"
    /\ Len(pre.filtered_items) = 4
    /\ pre.list_state = Some(3)
    /\ app.list_state = Some(0)
    /\ ~app.panicked
    /\ ~previous(app).panicked
    /\ previous(app).list_state = Some(3)
    /\ ~MovedNext(pre, 4).panicked

=============================================================================
